---- MODULE Spec2Model ----
(***************************************************************************)
(* Population catchment scripts of koramangala_osm.                        *)
(*                                                                         *)
(*   Spec          main() of scripts/11_worldpop_population.py: load the   *)
(*                 POIs, try to obtain a raster, then either buffer +      *)
(*                 extract from the raster or estimate, then save.         *)
(*   SpecAnalysis  RealWorldPopProcessor.create_poi_population_analysis of *)
(*                 scripts/09_add_worldpop_data.py applied to bounded      *)
(*                 clipped rasters and POI sets.                           *)
(*                                                                         *)
(* Geometry is one-dimensional: a raster is one row of RasterWidth cells,  *)
(* cell c (0-based) covers [c*res, (c+1)*res] and has its centre at        *)
(* c*res + res/2; a feature is an interval [lo, hi] on the same axis (a    *)
(* point has lo = hi).  Script 11 works in metres, script 09 in            *)
(* micro-degrees.  Floats are exact numbers, with NaN kept apart.          *)
(***************************************************************************)
EXTENDS Integers, Sequences, FiniteSets, TLC

\* ------------------------------------------------------------- bounds
RasterWidth == 3
MaxPois == 2
MaxRadii == 3
MaxDraws == 3
MaxRuns == 3
MaxCoord == 3
MaxFeatures == 2

\* ------------------------------------------------------------- values
None == << >>
Some(x) == << x >>

\* a float: a number or NaN
Num(x) == [nan |-> FALSE, v |-> x]
NaN == [nan |-> TRUE, v |-> 0]

\* a > 0 on floats; any comparison with NaN (or a masked scalar) is false
GtZero(a) == ~a.nan /\ a.v > 0

\* a >= b on floats
Geq(a, b) == ~a.nan /\ ~b.nan /\ a.v >= b.v

Ceil(n, d) == 0 - ((0 - n) \div d)

\* Python int(): truncation toward zero of n/d, d > 0
IntTrunc(n, d) == IF n >= 0 THEN n \div d ELSE 0 - ((0 - n) \div d)

RECURSIVE SumOver(_, _)
SumOver(f, S) ==
    IF S = {} THEN 0
    ELSE LET x == CHOOSE y \in S : TRUE IN f[x] + SumOver(f, S \ {x})

\* strictly increasing sequences of length 1..n over a set of integers
IncSeqs(S, n) ==
    { s \in UNION { [1..k -> S] : k \in 1..n } :
        \A i \in 1..(Len(s) - 1) : s[i] < s[i + 1] }

\* ------------------------------------------------------------- inputs
\* A raster cell as rasterio's masked read leaves it: the stored number and
\* the no-data mask bit.  A masked cell keeps the file's sentinel as data.
ValidCell(x) == [mask |-> FALSE, data |-> Num(x)]
NaNCell == [mask |-> FALSE, data |-> NaN]
SentinelCell == [mask |-> TRUE, data |-> Num(0 - 1)]
CellKinds == {ValidCell(0), ValidCell(100), NaNCell, SentinelCell}

\* cell size of the downloaded product, metres (100 m and 1 km products)
Resolutions == {100, 1000}

Rasters == [res : Resolutions, cells : [1..RasterWidth -> CellKinds]]

Point(x) == [gtype |-> "Point", lo |-> x, hi |-> x]
Polygon(a, b) == [gtype |-> "Polygon", lo |-> a, hi |-> b]
Centroid(g) == (g.lo + g.hi) \div 2

\* the features a POI file may hold: a point left of the raster, a point in
\* the first cell, a polygon over two 100 m cells, and a point at that
\* polygon's centroid (no cell centre falls on the edge of one of their
\* buffers)
GeomList == << Point(0 - 140), Point(60), Polygon(0, 200), Point(100) >>

\* POI files: no duplicate geometries, in file order
PoiSeqs ==
    { [i \in 1..Len(ix) |-> GeomList[ix[i]]] :
        ix \in IncSeqs(1..Len(GeomList), MaxPois) }

\* the buffer distances a caller may pass to create_buffer_zones and
\* create_population_estimates_api (metres, multiples of 10); main() passes
\* none, which is the default <<100, 200, 500>>
Distances == {0 - 100, 0, 100, 110, 200, 500}
DistanceLists == IncSeqs(Distances, MaxRadii)

\* np.random.random() picks the variation factor in [0.8, 1.2); tenths
Factors == {8, 10, 11}

\* sequences without repetition of length 1..n: the radii in any order
PermSeqs(S, n) ==
    { s \in UNION { [1..k -> S] : k \in 1..n } :
        \A i, j \in 1..Len(s) : i # j => s[i] # s[j] }
OrderedDistanceLists == PermSeqs(Distances \ {0 - 100, 110}, MaxRadii)

VARIABLES
    pc,               \* position in main() of script 11
    poi_file,         \* data/processed/koramangala_pois.geojson, or None
    buffer_distances, \* the radii requested
    pois,             \* loaded POIs (None before loading)
    raster_file,      \* the raster obtained, or None
    raster_opened,    \* "unopened", "opened", "failed": rasterio.open in extract
    buffer_zones,     \* result of create_buffer_zones, or None
    population_data,  \* result of extract / estimates, or None
    csv_file,         \* koramangala_pois_python_population.csv, or None
    summary_file,     \* koramangala_population_python_summary.json, or None
    ret,              \* outcome of main(): "running", "True", "False", or the
                      \* exception that ended it ("KeyError", "ValueError")
    apc,              \* script 09 analysis: "idle", "ready", "done"
    clipped_data,     \* script 09: dataset name -> clipped raster
    real_pois,        \* script 09: the POIs read at line 235
    poi_pop_data,     \* script 09: result of create_poi_population_analysis
    real_poi_file,    \* script 09: the POI file main() reads, or None
    data_dir,         \* script 09: data/worldpop_real, the file of each dataset
    source_rasters,   \* script 09: the raster a valid file of each dataset holds
    real_bounds,      \* script 09: result of get_koramangala_bounds
    raster_files,     \* script 09: result of download_real_worldpop_data
    clipped_files,    \* script 09: the clipped rasters written to data_dir
    real_csv,         \* script 09: koramangala_pois_with_REAL_population.csv
    real_summary,     \* script 09: koramangala_REAL_population_summary.json
    real_ret,         \* script 09: outcome of main()
    download_runs,    \* script 09: calls of download_real_worldpop_data so far
    download_log,     \* script 09: how the last call dealt with each dataset
    poi_crs,          \* the POI file declares a usable reference system
    variation,        \* the variation factors drawn by the estimator, in order
    second_data,      \* result of calling the aggregation a second time
    guard_src,        \* script 09 clip: src.bounds of the raster at hand
    guard_bounds,     \* script 09 clip: the bounds (minx, miny, maxx, maxy)
    guard_out,        \* script 09 clip: how the loop body dealt with the raster
    acq_pc,           \* script 11 acquisition: "idle", "search", "alt", "done"
    search_log,       \* script 11: the requests search_worldpop_datasets made
    search_ret,       \* script 11: what search_worldpop_datasets returned
    alt_log,          \* script 11: the requests try_alternative_worldpop_urls made
    alt_ret,          \* script 11: what try_alternative_worldpop_urls returned
    method_files,     \* script 11: worldpop_IND_2020_method<i>.tif in data_dir
    run_pc,           \* runner: place in scripts of the script to run next
    started,          \* runner: the scripts launched so far, in order
    exits,            \* runner: the exit status of each launched script
    runner_ret,       \* runner: "running", "False", or "None" at the end of main
    extracted,        \* script 02: what extract_pois returned
    pois_02,          \* script 02: the frame after categorize_pois and clean_data
    pois_geojson,     \* data/processed/koramangala_pois.geojson, or None
    msg_04            \* script 04: "none", "POIs file not found", "raised", "summary"

vars11 == << pc, poi_file, buffer_distances, pois, raster_file, raster_opened,
             buffer_zones, population_data, csv_file, summary_file, ret >>
varsReal == << real_poi_file, data_dir, source_rasters, real_bounds, raster_files,
              clipped_files, real_csv, real_summary, real_ret,
              download_runs, download_log >>
vars09 == << apc, clipped_data, real_pois, poi_pop_data, varsReal >>
varsAux == << poi_crs, variation, second_data >>
varsClip == << guard_src, guard_bounds, guard_out >>
varsAcquire == << acq_pc, search_log, search_ret, alt_log, alt_ret, method_files >>
varsPipeline == << run_pc, started, exits, runner_ret, extracted, pois_02,
                  pois_geojson, msg_04 >>
varsMore == << varsClip, varsAcquire, varsPipeline >>
vars == << vars11, vars09, varsAux, varsMore >>

\* the parts of the repository a specification leaves at rest
ClipIdle ==
    /\ guard_src = << >>
    /\ guard_bounds = << >>
    /\ guard_out = "idle"

AcquireIdle ==
    /\ acq_pc = "idle"
    /\ search_log = << >>
    /\ search_ret = << >>
    /\ alt_log = << >>
    /\ alt_ret = << >>
    /\ method_files = << >>

PipelineIdle ==
    /\ run_pc = 0
    /\ started = << >>
    /\ exits = << >>
    /\ runner_ret = "idle"
    /\ extracted = << >>
    /\ pois_02 = << >>
    /\ pois_geojson = << >>
    /\ msg_04 = "none"

MoreIdle ==
    /\ ClipIdle
    /\ AcquireIdle
    /\ PipelineIdle

\* ------------------------------------------------- create_buffer_zones
\* shapely buffer of the whole geometry by d; a point buffered by d <= 0, or
\* a polygon eroded past its width, is the empty polygon
Buffer(g, d) ==
    IF (g.hi - g.lo) + 2 * d <= 0
    THEN [empty |-> TRUE, lo |-> 0, hi |-> 0]
    ELSE [empty |-> FALSE, lo |-> g.lo - d, hi |-> g.hi + d]

\* the projected features after buffering them in place by d: what pois_utm
\* would hold if the buffers were assigned to it and not to a copy
BufferedInPlace(ps_utm, d) ==
    [i \in DOMAIN ps_utm |->
        [gtype |-> "Polygon",
         lo |-> Buffer(ps_utm[i], d).lo,
         hi |-> Buffer(ps_utm[i], d).hi]]

\* lines 175-176 leave pois_utm as it was: the buffers go into a copy
AfterIteration(ps_utm, d) == ps_utm

\* pois_utm as the k-th iteration of the loop finds it
RECURSIVE PoisUtmAt(_, _, _)
PoisUtmAt(ps, ds, k) ==
    IF k = 1 THEN ps
    ELSE AfterIteration(PoisUtmAt(ps, ds, k - 1), ds[k - 1])

\* one entry per distance, in the order given; poi_id = range(len(buffers))
create_buffer_zones(ps, ds) ==
    [k \in 1..Len(ds) |->
        [buffer_distance |-> ds[k],
         buffers |-> [i \in 1..Len(ps) |->
                        [geometry |-> Buffer(PoisUtmAt(ps, ds, k)[i], ds[k]),
                         buffer_distance |-> ds[k],
                         poi_id |-> i - 1]]]]

\* ------------------------------------- rasterio.mask.mask(crop, filled=False)
\* the shape's bounds meet the raster's extent (else mask raises ValueError)
Overlaps(r, g) == ~g.empty /\ g.hi > 0 /\ g.lo < r.res * Len(r.cells)

\* columns of the cropped window: the bounds rounded outward, cut to the raster
WindowCols(r, g) ==
    { c \in 0..(Len(r.cells) - 1) : c >= g.lo \div r.res /\ c < Ceil(g.hi, r.res) }

\* all_touched = False: a cell is inside the shape when its centre is
InShape(r, g, c) ==
    /\ 2 * g.lo <= 2 * c * r.res + r.res
    /\ 2 * c * r.res + r.res <= 2 * g.hi

\* the masked array: data untouched, mask = no-data mask or outside the shape
Clipped(r, g) ==
    [c \in WindowCols(r, g) |->
        [mask |-> r.cells[c + 1].mask \/ ~InShape(r, g, c),
         data |-> r.cells[c + 1].data]]

\* numpy.ma sum over the cells S of a masked array, converted by float():
\* masked cells are skipped, and when no cell is left unmasked the sum is the
\* masked constant, which float() turns into NaN
MaskedSum(img, S) ==
    LET un == { c \in S : ~img[c].mask }
    IN  IF un = {} THEN NaN
        ELSE Num(SumOver([c \in un |-> img[c].data.v], un))

\* lines 206-207: valid_data keeps the cells whose stored number is not NaN
\* (indexing by a masked boolean array ignores its mask), with their mask
TotalPopulation(img) ==
    LET valid == { c \in DOMAIN img : ~img[c].data.nan }
    IN  IF valid = {} THEN Num(0) ELSE MaskedSum(img, valid)

\* a density total / (pi * dist^2 / 10000) kept exact as n / (pi * d)
ZeroDensity == [nan |-> FALSE, n |-> 0, d |-> 1]
NaNDensity == [nan |-> TRUE, n |-> 0, d |-> 1]
Density(tot, dist) ==
    IF GtZero(tot) THEN [nan |-> FALSE, n |-> tot.v * 10000, d |-> dist * dist]
    ELSE ZeroDensity

\* ------------------------------------- extract_population_from_raster
SuccessRecord(r, row) ==
    LET tot == TotalPopulation(Clipped(r, row.geometry))
    IN  [poi_id |-> row.poi_id,
         buffer_distance |-> row.buffer_distance,
         longitude |-> Num(Centroid(row.geometry)),
         population_total |-> tot,
         population_density |-> Density(tot, row.buffer_distance)]

FailedRecord(row) ==
    [poi_id |-> row.poi_id,
     buffer_distance |-> row.buffer_distance,
     longitude |-> Num(Centroid(row.geometry)),
     population_total |-> Num(0),
     population_density |-> ZeroDensity]

\* a failed row filled in by the estimator instead of a zero record
RowResultEstimatesOnFailure(r, row) ==
    IF row.geometry.empty THEN None
    ELSE IF ~Overlaps(r, row.geometry)
         THEN Some([FailedRecord(row) EXCEPT !.population_total = Num(1)]
                   @@ [estimation_method |-> "api_fallback"])
    ELSE Some(SuccessRecord(r, row))

\* one pass of the inner try/except.  An empty buffer makes mask raise, and
\* the handler then reads the centroid of an empty geometry, which raises
\* again and leaves through the outer except: no record (None).
RowResult(r, row) ==
    IF row.geometry.empty THEN None
    ELSE IF ~Overlaps(r, row.geometry) THEN Some(FailedRecord(row))
    ELSE Some(SuccessRecord(r, row))

\* an extraction that keeps the window cut for the first radius and reads
\* every later radius of the same feature through it
extractReusingFirstWindow(r, zones, opens) ==
    IF ~opens \/ Len(zones) = 0 THEN (IF opens THEN Some(<< >>) ELSE None)
    ELSE
      LET n == Len(zones[1].buffers)
          all == [j \in 1..(Len(zones) * n) |->
                    RowResult(r, [zones[((j - 1) \div n) + 1].buffers[((j - 1) % n) + 1]
                                    EXCEPT !.geometry =
                                        zones[1].buffers[((j - 1) % n) + 1].geometry])]
      IN  IF \E j \in DOMAIN all : all[j] = None THEN None
          ELSE Some([j \in DOMAIN all |-> all[j][1]])

\* the whole method: None when the raster does not open or a row escapes the
\* inner handler, else the records zone by zone, row by row
extract_population_from_raster(r, zones, opens) ==
    IF ~opens \/ Len(zones) = 0 THEN (IF opens THEN Some(<< >>) ELSE None)
    ELSE
      LET n == Len(zones[1].buffers)
          all == [j \in 1..(Len(zones) * n) |->
                    RowResult(r, zones[((j - 1) \div n) + 1].buffers[((j - 1) % n) + 1])]
      IN  IF \E j \in DOMAIN all : all[j] = None THEN None
          ELSE Some([j \in DOMAIN all |-> all[j][1]])

\* ------------------------------------- fallback estimation
EstimatedDensity == 6000

\* int(pi * (d/1000)^2 * 6000 * f), f = f10/10, pi taken as 355/113;
\* distances are multiples of 10 m
estimate_population_simple(d, f10) ==
    IntTrunc(355 * (EstimatedDensity \div 1000) * (d \div 10) * (d \div 10) * f10,
             11300)

\* records POI by POI, distance by distance; fs gives the random factor of
\* each call of estimate_population_simple
create_population_estimates_api(ps, ds, fs) ==
    LET m == Len(ds)
    IN  [j \in 1..(Len(ps) * m) |->
          LET i == ((j - 1) \div m) + 1
              d == ds[((j - 1) % m) + 1]
              est == Num(estimate_population_simple(d, fs[j]))
          IN  [poi_id |-> i - 1,
               longitude |-> Num(Centroid(ps[i])),
               buffer_distance |-> d,
               population_total |-> est,
               population_density |-> Density(est, d),
               estimation_method |-> "api_fallback"]]

\* ------------------------------------- save_results
\* numpy round(0): to the nearest integer, ties to even (num, den > 0)
RoundHalfEven(num, den) ==
    LET q == num \div den
        rem == num - q * den
    IN  IF 2 * rem < den THEN q
        ELSE IF 2 * rem > den THEN q + 1
        ELSE IF q % 2 = 0 THEN q ELSE q + 1

\* round(0) of a density n / (pi * d), pi taken as 355/113; inf and NaN stay
RoundDensity(x) ==
    IF x.nan \/ x.d = 0 THEN x
    ELSE IF x.n = 0 THEN ZeroDensity
    ELSE [nan |-> FALSE,
          n |-> RoundHalfEven((x.n \div 100) * 113, 355 * (x.d \div 100)),
          d |-> 1]

MinOf(S) == CHOOSE x \in S : \A y \in S : x <= y

\* the pivot index: poi_id and coordinates; groupby drops NaN keys
PivotKeys(data) ==
    { [poi_id |-> data[j].poi_id, longitude |-> data[j].longitude] :
        j \in { i \in DOMAIN data : ~data[i].longitude.nan } }

\* the records of one (index, buffer_distance) group, in order
Group(data, key, d) ==
    { j \in DOMAIN data :
        /\ data[j].poi_id = key.poi_id
        /\ data[j].longitude = key.longitude
        /\ data[j].buffer_distance = d }

\* aggfunc = 'first': the first non-NaN value of the group, NaN if none
PivotTotal(data, key, d) ==
    LET js == { j \in Group(data, key, d) : ~data[j].population_total.nan }
    IN  IF js = {} THEN NaN ELSE data[MinOf(js)].population_total

PivotDensity(data, key, d) ==
    LET js == { j \in Group(data, key, d) : ~data[j].population_density.nan }
    IN  IF js = {} THEN NaNDensity
        ELSE RoundDensity(data[MinOf(js)].population_density)

\* pivot_table(...).round(0), columns flattened: one row per index key, one
\* column per value and buffer_distance; a column that is NaN in every row is
\* dropped (dropna = True).  No other column of the records is carried over.
Pivot(data) ==
    LET keys == PivotKeys(data)
        ds == { data[j].buffer_distance : j \in DOMAIN data }
        tcols == { d \in ds : \E k \in keys : ~PivotTotal(data, k, d).nan }
        dcols == { d \in ds : \E k \in keys : ~PivotDensity(data, k, d).nan }
    IN  [total_cols |-> tcols,
         density_cols |-> dcols,
         rows |-> { [poi_id |-> k.poi_id,
                     longitude |-> k.longitude,
                     population_total |-> [d \in tcols |-> PivotTotal(data, k, d)],
                     population_density |-> [d \in dcols |-> PivotDensity(data, k, d)]] :
                    k \in keys }]

\* the columns the summary reads (lines 324-327)
SummaryDistances == {100, 200, 500}

\* column mean, NaN skipped, kept as sum and count
ColumnMean(table, d) ==
    LET rs == { row \in table.rows : ~row.population_total[d].nan }
    IN  [sum |-> SumOver([row \in rs |-> row.population_total[d].v], rs),
         count |-> Cardinality(rs)]

Summary(table) ==
    [total_pois |-> Cardinality(table.rows),
     buffer_distances |-> SummaryDistances,
     average_population |-> [d \in SummaryDistances |-> ColumnMean(table, d)],
     data_source |-> "worldpop_python_api"]

\* ------------------------------------- main() of script 11
\* line 374: the raster path is taken when a raster file was obtained (it was
\* opened once by try_alternative_worldpop_urls, so it exists)
UseRaster(rf) == rf # None

Init ==
    /\ MoreIdle
    /\ pc = "load"
    /\ poi_file \in {None} \cup { Some(ps) : ps \in PoiSeqs }
    /\ buffer_distances \in DistanceLists
    /\ pois = None
    /\ raster_file = None
    /\ raster_opened = "unopened"
    /\ buffer_zones = None
    /\ population_data = None
    /\ csv_file = None
    /\ summary_file = None
    /\ ret = "running"
    /\ apc = "idle"
    /\ clipped_data = << >>
    /\ real_pois = << >>
    /\ poi_pop_data = None
    /\ poi_crs \in (IF poi_file = None THEN {TRUE} ELSE BOOLEAN)
    /\ variation = << >>
    /\ second_data = None
    /\ real_poi_file = None
    /\ data_dir = << >>
    /\ source_rasters = << >>
    /\ real_bounds = None
    /\ raster_files = None
    /\ clipped_files = {}
    /\ real_csv = None
    /\ real_summary = None
    /\ real_ret = "running"
    /\ download_runs = 0
    /\ download_log = << >>

\* load_koramangala_pois and the check of its result
LoadPois ==
    /\ pc = "load"
    /\ IF poi_file = None
       THEN /\ pc' = "done"
            /\ ret' = "False"
            /\ pois' = pois
       ELSE /\ pc' = "search"
            /\ ret' = ret
            /\ pois' = poi_file
    /\ UNCHANGED << varsMore, poi_file, buffer_distances, raster_file, raster_opened,
                    buffer_zones, population_data, csv_file, summary_file, vars09, varsAux >>

\* search_worldpop_datasets: whatever it returns, raster_file stays None
SearchDatasets ==
    /\ pc = "search"
    /\ pc' = "alt"
    /\ UNCHANGED << varsMore, poi_file, buffer_distances, pois, raster_file, raster_opened,
                    buffer_zones, population_data, csv_file, summary_file, ret, vars09, varsAux >>

\* try_alternative_worldpop_urls: a verified raster file, or None
TryAlternativeUrls ==
    /\ pc = "alt"
    /\ \E rf \in {None} \cup { Some(r) : r \in Rasters } :
          /\ raster_file' = rf
          /\ pc' = IF rf = None THEN "hrsl" ELSE "process"
    /\ UNCHANGED << varsMore, poi_file, buffer_distances, pois, raster_opened,
                    buffer_zones, population_data, csv_file, summary_file, ret, vars09, varsAux >>

\* get_facebook_hrsl_data: only logs
GetFacebookHrsl ==
    /\ pc = "hrsl"
    /\ pc' = "process"
    /\ UNCHANGED << varsMore, poi_file, buffer_distances, pois, raster_file, raster_opened,
                    buffer_zones, population_data, csv_file, summary_file, ret, vars09, varsAux >>

\* create_buffer_zones; to_crs raises ValueError on a frame without a
\* reference system, which nothing in main catches
CreateBufferZones ==
    /\ pc = "process"
    /\ UseRaster(raster_file)
    /\ IF poi_crs
       THEN /\ buffer_zones' = Some(create_buffer_zones(pois[1], buffer_distances))
            /\ pc' = "extract"
            /\ ret' = ret
       ELSE /\ buffer_zones' = buffer_zones
            /\ pc' = "done"
            /\ ret' = "ValueError"
    /\ UNCHANGED << varsMore, poi_file, buffer_distances, pois, raster_file, raster_opened,
                    population_data, csv_file, summary_file, vars09, varsAux >>

\* an extraction that writes its rows to the CSV as it goes
ExtractPopulationWritesRows ==
    /\ pc = "extract"
    /\ \E opens \in BOOLEAN :
          /\ raster_opened' = IF opens THEN "opened" ELSE "failed"
          /\ population_data' =
                extract_population_from_raster(raster_file[1], buffer_zones[1], opens)
    /\ csv_file' = IF population_data' = None THEN Some(Pivot(<< >>))
                   ELSE Some(Pivot(population_data'[1]))
    /\ pc' = "save"
    /\ UNCHANGED << varsMore, poi_file, buffer_distances, pois, raster_file,
                    buffer_zones, summary_file, ret, vars09, varsAux >>

\* extract_population_from_raster; rasterio.open may fail
ExtractPopulation ==
    /\ pc = "extract"
    /\ \E opens \in BOOLEAN :
          /\ raster_opened' = IF opens THEN "opened" ELSE "failed"
          /\ population_data' =
                extract_population_from_raster(raster_file[1], buffer_zones[1], opens)
    /\ pc' = "save"
    /\ UNCHANGED << varsMore, poi_file, buffer_distances, pois, raster_file,
                    buffer_zones, csv_file, summary_file, ret, vars09, varsAux >>

\* create_population_estimates_api; batches of more than MaxDraws estimates
\* are not explored
CreateEstimates ==
    /\ pc = "process"
    /\ ~UseRaster(raster_file)
    /\ Len(pois[1]) * Len(buffer_distances) <= MaxDraws
    /\ \E fs \in [1..(Len(pois[1]) * Len(buffer_distances)) -> Factors] :
          /\ population_data' =
                Some(create_population_estimates_api(pois[1], buffer_distances, fs))
          /\ variation' = fs
    /\ pc' = "save"
    /\ UNCHANGED << varsMore, poi_file, buffer_distances, pois, raster_file, raster_opened,
                    buffer_zones, csv_file, summary_file, ret, vars09,
                    poi_crs, second_data >>

\* lines 389-406: save_results when there is data; the CSV is written first,
\* then the summary, which raises KeyError when one of its columns is absent
SaveResults ==
    /\ pc = "save"
    /\ IF population_data = None
       THEN /\ ret' = "False"
            /\ UNCHANGED << csv_file, summary_file >>
       ELSE LET table == Pivot(population_data[1])
            IN  /\ csv_file' = Some(table)
                /\ IF SummaryDistances \subseteq table.total_cols
                   THEN /\ summary_file' = Some(Summary(table))
                        /\ ret' = "True"
                   ELSE /\ summary_file' = summary_file
                        /\ ret' = "KeyError"
    /\ pc' = "done"
    /\ UNCHANGED << varsMore, poi_file, buffer_distances, pois, raster_file, raster_opened,
                    buffer_zones, population_data, vars09, varsAux >>

Next ==
    \/ LoadPois
    \/ SearchDatasets
    \/ TryAlternativeUrls
    \/ GetFacebookHrsl
    \/ CreateBufferZones
    \/ ExtractPopulation
    \/ CreateEstimates
    \/ SaveResults

Spec == Init /\ [][Next]_vars

\* ------------------------------------- the processor's methods called twice
\* A caller that holds a WorldPopPythonProcessor and calls its aggregation
\* methods directly, with radii in any order, and then a second time with
\* the same arguments.
InitAggregate ==
    /\ MoreIdle
    /\ poi_file \in { Some(ps) : ps \in PoiSeqs }
    /\ pois = poi_file
    /\ buffer_distances \in OrderedDistanceLists
    /\ raster_file \in
          (IF Len(poi_file[1]) * Len(buffer_distances) <= MaxDraws
           THEN {None} ELSE {}) \cup { Some(r) : r \in Rasters }
    /\ pc = IF raster_file = None THEN "call_estimates" ELSE "call_zones"
    /\ poi_crs \in (IF raster_file = None THEN {TRUE} ELSE BOOLEAN)
    /\ raster_opened = "unopened"
    /\ buffer_zones = None
    /\ population_data = None
    /\ second_data = None
    /\ variation = << >>
    /\ real_poi_file = None
    /\ data_dir = << >>
    /\ source_rasters = << >>
    /\ real_bounds = None
    /\ raster_files = None
    /\ clipped_files = {}
    /\ real_csv = None
    /\ real_summary = None
    /\ real_ret = "running"
    /\ download_runs = 0
    /\ download_log = << >>
    /\ csv_file = None
    /\ summary_file = None
    /\ ret = "running"
    /\ apc = "idle"
    /\ clipped_data = << >>
    /\ real_pois = << >>
    /\ poi_pop_data = None

CallCreateBufferZones ==
    /\ pc = "call_zones"
    /\ IF poi_crs
       THEN /\ buffer_zones' = Some(create_buffer_zones(pois[1], buffer_distances))
            /\ pc' = "call_extract"
            /\ ret' = ret
       ELSE /\ buffer_zones' = buffer_zones
            /\ pc' = "raised"
            /\ ret' = "ValueError"
    /\ UNCHANGED << varsMore, poi_file, buffer_distances, pois, raster_file, raster_opened,
                    population_data, csv_file, summary_file, vars09, varsAux >>

CallExtract ==
    /\ pc = "call_extract"
    /\ \E opens \in BOOLEAN :
          /\ raster_opened' = IF opens THEN "opened" ELSE "failed"
          /\ population_data' =
                extract_population_from_raster(raster_file[1], buffer_zones[1], opens)
    /\ pc' = "call_extract_again"
    /\ UNCHANGED << varsMore, poi_file, buffer_distances, pois, raster_file,
                    buffer_zones, csv_file, summary_file, ret, vars09, varsAux >>

\* the same call on the same file, which opens as it did before
CallExtractAgain ==
    /\ pc = "call_extract_again"
    /\ second_data' =
          extract_population_from_raster(raster_file[1], buffer_zones[1],
                                         raster_opened = "opened")
    /\ pc' = "returned"
    /\ UNCHANGED << varsMore, vars09, poi_file, buffer_distances, pois, raster_file,
                    raster_opened, buffer_zones, population_data, csv_file,
                    summary_file, ret, poi_crs, variation >>

CallEstimates ==
    /\ pc = "call_estimates"
    /\ \E fs \in [1..(Len(pois[1]) * Len(buffer_distances)) -> Factors] :
          /\ population_data' =
                Some(create_population_estimates_api(pois[1], buffer_distances, fs))
          /\ variation' = fs
    /\ pc' = "call_estimates_again"
    /\ UNCHANGED << varsMore, poi_file, buffer_distances, pois, raster_file, raster_opened,
                    buffer_zones, csv_file, summary_file, ret, vars09,
                    poi_crs, second_data >>

\* the same call once more; the factors are drawn afresh
CallEstimatesAgain ==
    /\ pc = "call_estimates_again"
    /\ \E fs \in [1..(Len(pois[1]) * Len(buffer_distances)) -> Factors] :
          /\ second_data' =
                Some(create_population_estimates_api(pois[1], buffer_distances, fs))
          /\ variation' = variation \o fs
    /\ pc' = "returned"
    /\ UNCHANGED << varsMore, vars09, poi_file, buffer_distances, pois, raster_file,
                    raster_opened, buffer_zones, population_data, csv_file,
                    summary_file, ret, poi_crs >>

NextAggregate ==
    \/ CallCreateBufferZones
    \/ CallExtract
    \/ CallExtractAgain
    \/ CallEstimates
    \/ CallEstimatesAgain

SpecAggregate == InitAggregate /\ [][NextAggregate]_vars

\* ------------------------------------- script 09: create_poi_population_analysis
\* coordinates in micro-degrees; the clipped raster's transform has its
\* origin at 0 and one row
DatasetNames == {"total_population", "population_density"}

\* cell sizes in micro-degrees: about 100 m and about 1 km
ResolutionsDeg == {1000, 8333}

ClippedRasters == [res : ResolutionsDeg, cells : [1..RasterWidth -> CellKinds]]

UniformRasters ==
    { r \in ClippedRasters : \A c \in DOMAIN r.cells : r.cells[c] = r.cells[1] }

\* the dicts clip_real_data_to_koramangala may return: empty, one dataset, or
\* both (then total_population is drawn from the uniform rasters)
ClippedDicts ==
    UNION { [ns -> ClippedRasters] : ns \in {{}, {"total_population"}, {"population_density"}} }
    \cup { f \in [DatasetNames -> ClippedRasters] : f["total_population"] \in UniformRasters }

GeomListDeg ==
    << Point(0 - 9000), Point(0 - 500), Point(500), Polygon(1000, 3000), Point(3500) >>

RealPoiSeqs ==
    { [i \in 1..Len(ix) |-> GeomListDeg[ix[i]]] :
        ix \in IncSeqs(1..Len(GeomListDeg), MaxPois) }

\* lines 241-245: the point itself, or the centroid of any other geometry
PoiX(g) == IF g.gtype = "Point" THEN g.lo ELSE Centroid(g)

\* 0.002 degrees, the "~200m buffer" of line 274
BufferDeg == 2000

Max2(a, b) == IF a >= b THEN a ELSE b
Min2(a, b) == IF a <= b THEN a ELSE b

\* lines 259-260: col = int(x / res)
PoiCol(r, x) == IntTrunc(x, r.res)

InExtent(r, col) == 0 <= col /\ col < Len(r.cells)

\* lines 266-269: a masked cell reads as the masked constant, which np.isnan
\* leaves masked (falsy) and float() turns into NaN; an unmasked NaN becomes 0
AtLocation(r, col) ==
    LET cell == r.cells[col + 1]
    IN  IF cell.mask THEN NaN
        ELSE IF cell.data.nan THEN Num(0)
        ELSE cell.data

\* lines 273-283: the window of buffer_cells around col, cut to the raster,
\* summed over its non-NaN cells with the mask honoured
InBuffer(r, col) ==
    LET bc == Max2(1, BufferDeg \div r.res)
        c_min == Max2(0, col - bc)
        c_max == Min2(Len(r.cells), col + bc + 1)
        img == [c \in 0..(Len(r.cells) - 1) |-> r.cells[c + 1]]
    IN  MaskedSum(img, { c \in c_min..(c_max - 1) : ~img[c].data.nan })

\* one POI's row over every dataset (lines 256-291)
PoiRow(cd, g, idx) ==
    [poi_id |-> idx,
     longitude |-> Num(PoiX(g)),
     at_location |->
        [n \in DOMAIN cd |->
            IF InExtent(cd[n], PoiCol(cd[n], PoiX(g)))
            THEN AtLocation(cd[n], PoiCol(cd[n], PoiX(g)))
            ELSE Num(0)],
     in_buffer |->
        [n \in DOMAIN cd |->
            IF InExtent(cd[n], PoiCol(cd[n], PoiX(g)))
            THEN InBuffer(cd[n], PoiCol(cd[n], PoiX(g)))
            ELSE Num(0)]]

create_poi_population_analysis(cd, ps) ==
    IF DOMAIN cd = {} THEN None
    ELSE Some([i \in 1..Len(ps) |-> PoiRow(cd, ps[i], i - 1)])

InitAnalysis ==
    /\ MoreIdle
    /\ pc = "idle"
    /\ poi_file = None
    /\ buffer_distances = << >>
    /\ pois = None
    /\ raster_file = None
    /\ raster_opened = "unopened"
    /\ buffer_zones = None
    /\ population_data = None
    /\ csv_file = None
    /\ summary_file = None
    /\ ret = "running"
    /\ apc = "ready"
    /\ clipped_data \in ClippedDicts
    /\ real_pois \in RealPoiSeqs
    /\ poi_pop_data = None
    /\ poi_crs = TRUE
    /\ variation = << >>
    /\ second_data = None
    /\ real_poi_file = None
    /\ data_dir = << >>
    /\ source_rasters = << >>
    /\ real_bounds = None
    /\ raster_files = None
    /\ clipped_files = {}
    /\ real_csv = None
    /\ real_summary = None
    /\ real_ret = "running"
    /\ download_runs = 0
    /\ download_log = << >>

CreatePoiPopulationAnalysis ==
    /\ apc = "ready"
    /\ poi_pop_data' = create_poi_population_analysis(clipped_data, real_pois)
    /\ apc' = "done"
    /\ UNCHANGED << varsMore, clipped_data, real_pois, varsReal, vars11, varsAux >>

NextAnalysis == CreatePoiPopulationAnalysis

SpecAnalysis == InitAnalysis /\ [][NextAnalysis]_vars

\* ------------------------------------- script 09: main()
\* the 0.01 degree margin get_koramangala_bounds adds (line 37)
BoundsMarginDeg == 10000

\* lines 25-41: None without the POI file, else the features' total bounds
\* widened by the margin
get_koramangala_bounds(file) ==
    IF file = None THEN None
    ELSE LET ps == file[1]
             lo == MinOf({ ps[i].lo : i \in DOMAIN ps })
             hi == 0 - MinOf({ 0 - ps[i].hi : i \in DOMAIN ps })
         IN  Some([empty |-> FALSE, lo |-> lo - BoundsMarginDeg,
                   hi |-> hi + BoundsMarginDeg])

\* a dataset's file in data_dir: absent, at most 10 MB, or larger and then a
\* readable GeoTIFF or not
FileStates == {"absent", "small", "large_valid", "large_invalid"}
IsLarge(f) == f \in {"large_valid", "large_invalid"}

\* how one download ends (lines 78-118): the URL does not answer with 200 or
\* the request raises before the file is opened; the transfer breaks after
\* part of the file is on disk; the file arrives but is no GeoTIFF and is
\* unlinked; the file arrives and is verified
DownloadOutcomes ==
    {"unreachable", "interrupted_small", "interrupted_large", "not_geotiff", "verified"}

\* lines 60-70 and what the download leaves: a file over 10 MB is kept as it
\* is, a smaller one is unlinked first
FileAfter(f, o) ==
    IF IsLarge(f) THEN f
    ELSE IF o = "interrupted_small" THEN "small"
    ELSE IF o = "interrupted_large" THEN "large_invalid"
    ELSE IF o = "verified" THEN "large_valid"
    ELSE "absent"

\* what the call logs for a dataset: the file on disk is taken as it is, or
\* the outcome of the download
LogEntry(f, o) == IF IsLarge(f) THEN "already_exists" ELSE o

\* the dataset enters downloaded_files (lines 67 and 111)
Recorded(f, o) == IsLarge(f) \/ o = "verified"

\* lines 122-126
download_real_worldpop_data(dir, o) ==
    LET got == { n \in DatasetNames : Recorded(dir[n], o[n]) }
    IN  IF got = {} THEN None ELSE Some(got)

\* the guard of lines 176-177 along the one axis of the model: "not" binds
\* to the first comparison only
IntersectGuardSkips(r, b) ==
    (~(0 <= b.hi)) /\ (r.res * Len(r.cells) >= b.lo)

\* lines 173-222 for one dataset: None when the file does not open, the
\* guard skips it or mask raises; else the cropped masked array.  The bounds
\* reach left of every raster of the model, so the window starts at column 0
\* and the clipped transform keeps the origin.
ClipOne(f, r, b) ==
    IF f # "large_valid" \/ IntersectGuardSkips(r, b) \/ ~Overlaps(r, b) THEN None
    ELSE LET img == Clipped(r, b)
             c0 == MinOf(DOMAIN img)
         IN  Some([res |-> r.res,
                   cells |-> [c \in 1..Cardinality(DOMAIN img) |-> img[c0 + c - 1]]])

clip_real_data_to_koramangala(files, b, dir, src) ==
    LET ok == { n \in files : ClipOne(dir[n], src[n], b) # None }
    IN  [n \in ok |-> ClipOne(dir[n], src[n], b)[1]]

\* numpy.ma max over the cells S, converted by float()
MaskedMax(img, S) ==
    LET un == { c \in S : ~img[c].mask }
    IN  IF un = {} THEN NaN
        ELSE Num(0 - MinOf({ 0 - img[c].data.v : c \in un }))

\* numpy.ma mean over the cells S, kept as sum and count
MaskedMean(img, S) ==
    LET un == { c \in S : ~img[c].mask }
    IN  IF un = {} THEN [nan |-> TRUE, sum |-> 0, count |-> 0]
        ELSE [nan |-> FALSE,
              sum |-> SumOver([c \in un |-> img[c].data.v], un),
              count |-> Cardinality(un)]

\* the cells data[~np.isnan(data)] selects (the mask plays no part)
NotNaNCells(r) == { c \in DOMAIN r.cells : ~r.cells[c].data.nan }

\* lines 341-351; np.max of an empty selection raises ValueError
SummaryRaises(cd) == \E n \in DOMAIN cd : NotNaNCells(cd[n]) = {}

RealSummary(cd) ==
    [n \in DOMAIN cd |->
        [total_population |-> MaskedSum(cd[n].cells, NotNaNCells(cd[n])),
         max_density |-> MaskedMax(cd[n].cells, NotNaNCells(cd[n])),
         mean_density |-> MaskedMean(cd[n].cells, NotNaNCells(cd[n])),
         resolution_degrees |-> cd[n].res]]

\* the rasters a valid file may hold (one value in every cell)
SourceRasters == [DatasetNames -> UniformRasters]

InitReal ==
    /\ MoreIdle
    /\ pc = "idle"
    /\ poi_file = None
    /\ buffer_distances = << >>
    /\ pois = None
    /\ raster_file = None
    /\ raster_opened = "unopened"
    /\ buffer_zones = None
    /\ population_data = None
    /\ csv_file = None
    /\ summary_file = None
    /\ ret = "running"
    /\ poi_crs = TRUE
    /\ variation = << >>
    /\ second_data = None
    /\ apc = "main_bounds"
    /\ clipped_data = << >>
    /\ real_pois = << >>
    /\ poi_pop_data = None
    /\ real_poi_file \in {None} \cup { Some(ps) : ps \in RealPoiSeqs }
    /\ data_dir \in [DatasetNames -> FileStates]
    /\ source_rasters \in SourceRasters
    /\ real_bounds = None
    /\ raster_files = None
    /\ clipped_files = {}
    /\ real_csv = None
    /\ real_summary = None
    /\ real_ret = "running"
    /\ download_runs = 0
    /\ download_log = << >>

\* lines 305-308
GetBounds ==
    /\ apc = "main_bounds"
    /\ real_bounds' = get_koramangala_bounds(real_poi_file)
    /\ IF real_bounds' = None
       THEN apc' = "main_done" /\ real_ret' = "False"
       ELSE apc' = "main_download" /\ real_ret' = real_ret
    /\ UNCHANGED << varsMore, vars11, varsAux, clipped_data, real_pois, poi_pop_data,
                    real_poi_file, data_dir, source_rasters, raster_files,
                    clipped_files, real_csv, real_summary,
                    download_runs, download_log >>

\* main carrying on as a success when nothing was downloaded
DownloadDataReportsSuccess ==
    /\ apc = "main_download"
    /\ \E o \in [DatasetNames -> DownloadOutcomes] :
          /\ data_dir' = [n \in DatasetNames |-> FileAfter(data_dir[n], o[n])]
          /\ raster_files' = download_real_worldpop_data(data_dir, o)
          /\ download_log' = [n \in DatasetNames |-> LogEntry(data_dir[n], o[n])]
    /\ IF raster_files' = None
       THEN apc' = "main_done" /\ real_ret' = "True"
       ELSE apc' = "main_clip" /\ real_ret' = real_ret
    /\ download_runs' = download_runs + 1
    /\ UNCHANGED << varsMore, vars11, varsAux, clipped_data, real_pois, poi_pop_data,
                    real_poi_file, source_rasters, real_bounds,
                    clipped_files, real_csv, real_summary >>

\* lines 310-318: no dataset obtained ends main with False
DownloadData ==
    /\ apc = "main_download"
    /\ \E o \in [DatasetNames -> DownloadOutcomes] :
          /\ data_dir' = [n \in DatasetNames |-> FileAfter(data_dir[n], o[n])]
          /\ raster_files' = download_real_worldpop_data(data_dir, o)
          /\ download_log' = [n \in DatasetNames |-> LogEntry(data_dir[n], o[n])]
    /\ IF raster_files' = None
       THEN apc' = "main_done" /\ real_ret' = "False"
       ELSE apc' = "main_clip" /\ real_ret' = real_ret
    /\ download_runs' = download_runs + 1
    /\ UNCHANGED << varsMore, vars11, varsAux, clipped_data, real_pois, poi_pop_data,
                    real_poi_file, source_rasters, real_bounds,
                    clipped_files, real_csv, real_summary >>

\* lines 320-326: each clipped raster is also written to data_dir
ClipData ==
    /\ apc = "main_clip"
    /\ clipped_data' = clip_real_data_to_koramangala(raster_files[1], real_bounds[1],
                                                     data_dir, source_rasters)
    /\ clipped_files' = DOMAIN clipped_data'
    /\ IF DOMAIN clipped_data' = {}
       THEN apc' = "main_done" /\ real_ret' = "False"
       ELSE apc' = "main_analysis" /\ real_ret' = real_ret
    /\ UNCHANGED << varsMore, vars11, varsAux, real_pois, poi_pop_data, real_poi_file,
                    data_dir, source_rasters, real_bounds, raster_files,
                    real_csv, real_summary, download_runs, download_log >>

\* lines 328-334; the method reads the POI file again
AnalysePois ==
    /\ apc = "main_analysis"
    /\ real_pois' = real_poi_file[1]
    /\ poi_pop_data' = create_poi_population_analysis(clipped_data, real_pois')
    /\ IF poi_pop_data' = None
       THEN apc' = "main_done" /\ real_ret' = "False"
       ELSE apc' = "main_save" /\ real_ret' = real_ret
    /\ UNCHANGED << varsMore, vars11, varsAux, clipped_data, real_poi_file, data_dir,
                    source_rasters, real_bounds, raster_files, clipped_files,
                    real_csv, real_summary, download_runs, download_log >>

\* lines 336-372: the CSV, then the summary
SaveReal ==
    /\ apc = "main_save"
    /\ real_csv' = poi_pop_data
    /\ IF SummaryRaises(clipped_data)
       THEN real_summary' = real_summary /\ real_ret' = "ValueError"
       ELSE real_summary' = Some(RealSummary(clipped_data)) /\ real_ret' = "True"
    /\ apc' = "main_done"
    /\ UNCHANGED << varsMore, vars11, varsAux, clipped_data, real_pois, poi_pop_data,
                    real_poi_file, data_dir, source_rasters, real_bounds,
                    raster_files, clipped_files, download_runs, download_log >>

NextReal ==
    \/ GetBounds
    \/ DownloadData
    \/ ClipData
    \/ AnalysePois
    \/ SaveReal

SpecReal == InitReal /\ [][NextReal]_vars

\* ------------------------------------- script 09: the download, run after run
\* download_real_worldpop_data called again and again on a data directory
\* that starts empty, as repeated runs of the script do
InitDownloads ==
    /\ MoreIdle
    /\ pc = "idle"
    /\ poi_file = None
    /\ buffer_distances = << >>
    /\ pois = None
    /\ raster_file = None
    /\ raster_opened = "unopened"
    /\ buffer_zones = None
    /\ population_data = None
    /\ csv_file = None
    /\ summary_file = None
    /\ ret = "running"
    /\ poi_crs = TRUE
    /\ variation = << >>
    /\ second_data = None
    /\ apc = "downloads"
    /\ clipped_data = << >>
    /\ real_pois = << >>
    /\ poi_pop_data = None
    /\ real_poi_file = None
    /\ data_dir = [n \in DatasetNames |-> "absent"]
    /\ source_rasters = << >>
    /\ real_bounds = None
    /\ raster_files = None
    /\ clipped_files = {}
    /\ real_csv = None
    /\ real_summary = None
    /\ real_ret = "running"
    /\ download_runs = 0
    /\ download_log = << >>

RunDownload ==
    /\ apc = "downloads"
    /\ download_runs < MaxRuns
    /\ \E o \in [DatasetNames -> DownloadOutcomes] :
          /\ data_dir' = [n \in DatasetNames |-> FileAfter(data_dir[n], o[n])]
          /\ raster_files' = download_real_worldpop_data(data_dir, o)
          /\ download_log' = [n \in DatasetNames |-> LogEntry(data_dir[n], o[n])]
    /\ download_runs' = download_runs + 1
    /\ UNCHANGED << varsMore, vars11, varsAux, apc, clipped_data, real_pois, poi_pop_data,
                    real_poi_file, source_rasters, real_bounds,
                    clipped_files, real_csv, real_summary, real_ret >>

NextDownloads == RunDownload

SpecDownloads == InitDownloads /\ [][NextDownloads]_vars

\* the scripts 09 and 11 at rest
ScriptsIdle ==
    /\ pc = "idle"
    /\ poi_file = None
    /\ buffer_distances = << >>
    /\ pois = None
    /\ raster_file = None
    /\ raster_opened = "unopened"
    /\ buffer_zones = None
    /\ population_data = None
    /\ csv_file = None
    /\ summary_file = None
    /\ ret = "running"
    /\ poi_crs = TRUE
    /\ variation = << >>
    /\ second_data = None
    /\ apc = "idle"
    /\ clipped_data = << >>
    /\ real_pois = << >>
    /\ poi_pop_data = None
    /\ real_poi_file = None
    /\ data_dir = [n \in DatasetNames |-> "absent"]
    /\ source_rasters = << >>
    /\ real_bounds = None
    /\ raster_files = None
    /\ clipped_files = {}
    /\ real_csv = None
    /\ real_summary = None
    /\ real_ret = "running"
    /\ download_runs = 0
    /\ download_log = << >>

\* ------------------------- script 09: the intersection guard, in the plane
\* boxes with corners on a small grid; src.bounds is (left, bottom, right,
\* top), the bounds of the area are (minx, miny, maxx, maxy)
Coords == 0..MaxCoord
SrcBounds ==
    { b \in [left : Coords, bottom : Coords, right : Coords, top : Coords] :
        b.left < b.right /\ b.bottom < b.top }
AreaBounds ==
    { b \in [minx : Coords, miny : Coords, maxx : Coords, maxy : Coords] :
        b.minx < b.maxx /\ b.miny < b.maxy }

\* the two boxes have a point in common
BoundsIntersect(s, b) ==
    /\ s.left <= b.maxx
    /\ s.bottom <= b.maxy
    /\ s.right >= b.minx
    /\ s.top >= b.miny

\* the two boxes share an area, not only an edge or a corner
InteriorsOverlap(s, b) ==
    /\ s.left < b.maxx
    /\ s.bottom < b.maxy
    /\ s.right > b.minx
    /\ s.top > b.miny

\* the condition of lines 176-177 as Python reads it: "not" applies to the
\* first comparison alone, "and" joins it to the other three
GuardSkips(s, b) ==
    /\ ~(s.left <= b.maxx)
    /\ s.bottom <= b.maxy
    /\ s.right >= b.minx
    /\ s.top >= b.miny

\* what mask(src, bbox_geom, crop=True) does at line 181: it raises
\* ValueError when the shapes do not overlap the raster, which the except of
\* line 218 logs; boxes that only touch give no cell or raise
MaskOutcomes(s, b) ==
    IF InteriorsOverlap(s, b) THEN {"clipped"}
    ELSE IF BoundsIntersect(s, b) THEN {"empty", "mask_raised"}
    ELSE {"mask_raised"}

\* the loop body of lines 172-220 for one raster that opens
ClipLoopOutcomes(s, b) ==
    IF GuardSkips(s, b) THEN {"skipped"} ELSE MaskOutcomes(s, b)

InitGuard ==
    /\ ScriptsIdle
    /\ AcquireIdle
    /\ PipelineIdle
    /\ guard_src \in SrcBounds
    /\ guard_bounds \in AreaBounds
    /\ guard_out = "pending"

ClipLoopBody ==
    /\ guard_out = "pending"
    /\ guard_out' \in ClipLoopOutcomes(guard_src, guard_bounds)
    /\ UNCHANGED << vars11, vars09, varsAux, varsAcquire, varsPipeline,
                    guard_src, guard_bounds >>

NextGuard == ClipLoopBody

SpecGuard == InitGuard /\ [][NextGuard]_vars

\* ------------------------------ script 11: the acquisition of a raster
\* the endpoints of lines 32-36 and the direct URLs of lines 96-101, by
\* their place in the list
SearchUrls == << "www.worldpop.org", "hub.worldpop.org", "data.worldpop.org" >>
AlternativeUrls == << "1km_Aggregated_UNadj", "constrained", "pd_1km", "ftp" >>

\* how an endpoint answers the one GET of line 47: the request raises, the
\* status is not 200, the body is no JSON (response.json() raises), or data
SearchAnswers == {"raises", "not_200", "not_json", "data"}

\* how a direct URL behaves: HEAD raises (as it does for the ftp scheme),
\* HEAD is not 200, GET fails before the file is opened, the transfer
\* breaks with part of the file written, the file arrives but rasterio
\* cannot open it, the file arrives and opens
AlternativeAnswers ==
    {"head_raises", "head_not_200", "get_fails", "transfer_breaks",
     "invalid_raster", "valid_raster"}

\* line 49-52: the function returns at the first endpoint that gives data
SearchReturnsAt(a) == a = "data"

\* the requests one endpoint receives (line 47)
SearchRequests(k) == << [url |-> k, request |-> "get"] >>

\* lines 45-57 from endpoint k on
RECURSIVE SearchFrom(_, _, _)
SearchFrom(answers, k, log) ==
    IF k > Len(SearchUrls) THEN [ret |-> None, log |-> log]
    ELSE IF SearchReturnsAt(answers[k])
         THEN [ret |-> Some(k), log |-> log \o SearchRequests(k)]
         ELSE SearchFrom(answers, k + 1, log \o SearchRequests(k))

\* lines 26-60
search_worldpop_datasets(answers) == SearchFrom(answers, 1, << >>)

\* a client that asks once more when a request has failed
AlternativeRequestsRetried(k, a) ==
    IF a \in {"head_raises", "head_not_200"}
    THEN << [url |-> k, request |-> "head"], [url |-> k, request |-> "head"] >>
    ELSE << [url |-> k, request |-> "head"], [url |-> k, request |-> "get"] >>

\* the requests one direct URL receives: HEAD at line 108, and GET at
\* line 67 when HEAD answered 200
AlternativeRequests(k, a) ==
    IF a \in {"head_raises", "head_not_200"}
    THEN << [url |-> k, request |-> "head"] >>
    ELSE << [url |-> k, request |-> "head"], [url |-> k, request |-> "get"] >>

\* what the attempt leaves at output_file: a broken transfer leaves what was
\* written, an invalid raster is unlinked at line 116
FileLeft(a) ==
    IF a = "transfer_breaks" THEN "partial"
    ELSE IF a = "valid_raster" THEN "valid"
    ELSE "absent"

\* line 113: the function returns inside the with block of the first raster
\* that opens
AlternativeReturnsAt(a) == a = "valid_raster"

\* lines 103-124 from URL k on
RECURSIVE AlternativeFrom(_, _, _, _)
AlternativeFrom(answers, k, log, files) ==
    IF k > Len(AlternativeUrls) THEN [ret |-> None, log |-> log, files |-> files]
    ELSE LET log2 == log \o AlternativeRequests(k, answers[k])
             files2 == [files EXCEPT ![k] = FileLeft(answers[k])]
         IN  IF AlternativeReturnsAt(answers[k])
             THEN [ret |-> Some(k), log |-> log2, files |-> files2]
             ELSE AlternativeFrom(answers, k + 1, log2, files2)

\* lines 91-126
try_alternative_worldpop_urls(answers) ==
    AlternativeFrom(answers, 1, << >>,
                    [k \in DOMAIN AlternativeUrls |-> "absent"])

InitAcquire ==
    /\ ScriptsIdle
    /\ ClipIdle
    /\ PipelineIdle
    /\ acq_pc = "search"
    /\ search_log = << >>
    /\ search_ret = None
    /\ alt_log = << >>
    /\ alt_ret = None
    /\ method_files = [k \in DOMAIN AlternativeUrls |-> "absent"]

\* main, lines 355: Method 1
SearchWorldpopDatasets ==
    /\ acq_pc = "search"
    /\ \E answers \in [DOMAIN SearchUrls -> SearchAnswers] :
          LET r == search_worldpop_datasets(answers)
          IN  /\ search_ret' = r.ret
              /\ search_log' = r.log
    /\ acq_pc' = "alt"
    /\ UNCHANGED << vars11, vars09, varsAux, varsClip, varsPipeline,
                    alt_log, alt_ret, method_files >>

\* main, lines 363-365: Method 2; raster_file is still None whatever the
\* search returned
TryAlternativeWorldpopUrls ==
    /\ acq_pc = "alt"
    /\ \E answers \in [DOMAIN AlternativeUrls -> AlternativeAnswers] :
          LET r == try_alternative_worldpop_urls(answers)
          IN  /\ alt_ret' = r.ret
              /\ alt_log' = r.log
              /\ method_files' = r.files
    /\ acq_pc' = "done"
    /\ UNCHANGED << vars11, vars09, varsAux, varsClip, varsPipeline,
                    search_log, search_ret >>

NextAcquire == SearchWorldpopDatasets \/ TryAlternativeWorldpopUrls

SpecAcquire == InitAcquire /\ [][NextAcquire]_vars

\* ------------------------------------------ the pipeline of scripts 01-04
\* run_all_koramangala.py, lines 29-34
Scripts ==
    << "01_extract_koramangala.py", "02_process_pois.py",
       "03_process_roads.py", "04_create_business_datasets.py" >>

\* a tag a feature does not carry is NaN in its column; a value is kept in
\* a one-element sequence
NoTag == << >>
Tag(v) == << v >>

\* the amenity lists of osm_helper.py, lines 127-131
FoodBeverageAmenities == {"restaurant", "cafe", "bar", "fast_food", "food_court"}
HealthcareAmenities == {"hospital", "clinic", "pharmacy", "dentist"}
EducationAmenities == {"school", "university", "college", "library"}
FinancialAmenities == {"bank", "atm"}
TransportAmenities == {"fuel", "parking", "bus_station"}

\* the names categorize_pois can assign
CategoryNames ==
    {"food_beverage", "healthcare", "education", "financial", "transport",
     "retail", "other"}

\* the features OSM returns for the tags of extract_pois: one amenity of each
\* list, an amenity of no list (met on a feature found by its shop tag), a
\* hotel with no amenity; geometries g1 and g2 are valid, bowtie is a
\* self-intersecting polygon
AmenityValues ==
    {NoTag, Tag("cafe"), Tag("clinic"), Tag("library"), Tag("atm"),
     Tag("fuel"), Tag("bench")}
ShopValues == {NoTag, Tag("bakery")}
Geometries == {"g1", "g2", "bowtie"}
Features == [amenity : AmenityValues, shop : ShopValues, geometry : Geometries]

\* a frame: the features in order, each with the index (element id) ox
\* gave it
Frame(fs) ==
    [i \in DOMAIN fs |-> [id |-> i, amenity |-> fs[i].amenity,
                          shop |-> fs[i].shop, geometry |-> fs[i].geometry]]

\* 'amenity' in df.columns: ox makes a column for a tag some feature carries
HasColumn(df, col) ==
    \E i \in DOMAIN df : IF col = "amenity" THEN df[i].amenity # NoTag
                                            ELSE df[i].shop # NoTag

\* df['amenity'].isin(list) for one row
IsIn(tag, list) == tag # NoTag /\ tag[1] \in list

\* lines 127-131 for one row: each .loc assignment in turn
AmenityCategory(f, cat) ==
    LET c1 == IF IsIn(f.amenity, FoodBeverageAmenities) THEN "food_beverage" ELSE cat
        c2 == IF IsIn(f.amenity, HealthcareAmenities) THEN "healthcare" ELSE c1
        c3 == IF IsIn(f.amenity, EducationAmenities) THEN "education" ELSE c2
        c4 == IF IsIn(f.amenity, FinancialAmenities) THEN "financial" ELSE c3
    IN  IF IsIn(f.amenity, TransportAmenities) THEN "transport" ELSE c4

\* a categoriser that names the shop's kind
ShopCategoryFromTag(f, cat) ==
    IF f.shop # NoTag THEN f.shop[1] ELSE cat

\* line 135 for one row
ShopCategory(f, cat) ==
    IF f.shop # NoTag THEN "retail" ELSE cat

\* lines 117-138: an empty frame comes back as it is, with no category column
categorize_pois(df) ==
    IF Len(df) = 0 THEN df
    ELSE [i \in DOMAIN df |->
            LET c0 == "other"
                c1 == IF HasColumn(df, "amenity") THEN AmenityCategory(df[i], c0) ELSE c0
                c2 == IF HasColumn(df, "shop") THEN ShopCategory(df[i], c1) ELSE c1
            IN  [id |-> df[i].id, amenity |-> df[i].amenity, shop |-> df[i].shop,
                 geometry |-> df[i].geometry, category |-> c2]]

\* the rows of a frame a predicate keeps, in their order
RECURSIVE KeepRows(_, _)
KeepRows(df, keep) ==
    IF df = << >> THEN << >>
    ELSE IF Head(df).id \in keep THEN << Head(df) >> \o KeepRows(Tail(df), keep)
         ELSE KeepRows(Tail(df), keep)

\* gdf.geometry.is_valid
IsValid(g) == g # "bowtie"

\* astype(str).str.strip() on a text column: NaN becomes the text "nan"
AsStr(tag) == IF tag = NoTag THEN Tag("nan") ELSE tag

\* lines 140-166: invalid geometries go, of rows with the same geometry the
\* first stays, text columns are converted
clean_data(df) ==
    IF Len(df) = 0 THEN df
    ELSE LET valid == KeepRows(df, { df[i].id : i \in { j \in DOMAIN df : IsValid(df[j].geometry) } })
             first == { valid[i].id : i \in { j \in DOMAIN valid :
                           \A k \in 1..(j - 1) : valid[k].geometry # valid[j].geometry } }
             kept == KeepRows(valid, first)
         IN  [i \in DOMAIN kept |->
                [id |-> kept[i].id, amenity |-> AsStr(kept[i].amenity),
                 shop |-> AsStr(kept[i].shop), geometry |-> kept[i].geometry,
                 category |-> kept[i].category]]

\* save_geospatial_data, osm_helper.py lines 20-28: nothing is written for a
\* frame without rows
save_geospatial_data(gdf, file) ==
    IF Len(gdf) = 0 THEN file ELSE Some(gdf)

\* 02_process_pois.py main and its exit status: 1 when extract_pois gave
\* None (line 47), 1 when the frame was empty from the start, as line 41
\* then raises KeyError for the category column, else 0
ExitOf02(ext) ==
    IF ext = None THEN 1
    ELSE IF Len(ext[1]) = 0 THEN 1
    ELSE 0

\* a runner that takes every script for a success
run_scriptIgnoringStatus(status) == TRUE

\* run_script, lines 14-23: check=True raises CalledProcessError on a
\* status other than 0
run_script(status) == status = 0

\* main of the runner, lines 38-42 and 44-51, after script k ended
RunnerAfter(k, status) ==
    /\ started' = Append(started, Scripts[k])
    /\ exits' = Append(exits, status)
    /\ IF run_script(status)
       THEN /\ run_pc' = k + 1
            /\ runner_ret' = IF k = Len(Scripts) THEN "None" ELSE "running"
       ELSE /\ run_pc' = run_pc
            /\ runner_ret' = "False"

\* the data directories are empty and the runner is at its first script
InitPipeline ==
    /\ ScriptsIdle
    /\ ClipIdle
    /\ AcquireIdle
    /\ run_pc = 1
    /\ started = << >>
    /\ exits = << >>
    /\ runner_ret = "running"
    /\ extracted = None
    /\ pois_02 = None
    /\ pois_geojson = None
    /\ msg_04 = "none"

\* 01_extract_koramangala.py: the two extractions work or one does not
Run01 ==
    /\ runner_ret = "running"
    /\ run_pc = 1
    /\ \E status \in {0, 1} : RunnerAfter(1, status)
    /\ UNCHANGED << vars11, vars09, varsAux, varsClip, varsAcquire,
                    extracted, pois_02, pois_geojson, msg_04 >>

\* 02_process_pois.py
Main02(ext) ==
    /\ extracted' = ext
    /\ pois_02' = IF ext = None THEN None
                  ELSE Some(clean_data(categorize_pois(ext[1])))
    /\ pois_geojson' =
          IF ext = None THEN pois_geojson
          ELSE save_geospatial_data(clean_data(categorize_pois(ext[1])),
                                    pois_geojson)
    /\ RunnerAfter(2, ExitOf02(ext))

\* extract_pois gives None or a frame of up to MaxFeatures features
Run02 ==
    /\ runner_ret = "running"
    /\ run_pc = 2
    /\ \/ Main02(None)
       \/ \E n \in 0..MaxFeatures : \E fs \in [1..n -> Features] :
             Main02(Some(Frame(fs)))
    /\ UNCHANGED << vars11, vars09, varsAux, varsClip, varsAcquire, msg_04 >>

\* 03_process_roads.py: the road extraction works or not
Run03 ==
    /\ runner_ret = "running"
    /\ run_pc = 3
    /\ \E status \in {0, 1} : RunnerAfter(3, status)
    /\ UNCHANGED << vars11, vars09, varsAux, varsClip, varsAcquire,
                    extracted, pois_02, pois_geojson, msg_04 >>

\* 04_create_business_datasets.py main, lines 85-154: without the POI file it
\* logs and returns False; with it the datasets are written, unless a
\* writer raises
Run04 ==
    /\ runner_ret = "running"
    /\ run_pc = 4
    /\ IF pois_geojson = None
       THEN /\ msg_04' = "POIs file not found"
            /\ RunnerAfter(4, 1)
       ELSE \E m \in {"summary", "raised"} :
               /\ msg_04' = m
               /\ RunnerAfter(4, IF m = "summary" THEN 0 ELSE 1)
    /\ UNCHANGED << vars11, vars09, varsAux, varsClip, varsAcquire,
                    extracted, pois_02, pois_geojson >>

NextPipeline == Run01 \/ Run02 \/ Run03 \/ Run04

SpecPipeline == InitPipeline /\ [][NextPipeline]_vars

\* =====================================================================
\* Properties
\* =====================================================================
\* the records of the batch, if any
Records == IF population_data = None THEN << >> ELSE population_data[1]

\* the records of a batch whose raster opened
RasterRecords == IF raster_opened = "opened" THEN Records ELSE << >>

IsEstimated(rec) == "estimation_method" \in DOMAIN rec

\* the feature and the buffer a record was computed for
RecFeature(rec) == pois[1][rec.poi_id + 1]
RecBuffer(rec) == Buffer(RecFeature(rec), rec.buffer_distance)

\* what a record says about the measurement, identity and position left out
Measured(rec) ==
    [f \in DOMAIN rec \ {"poi_id", "buffer_distance", "longitude"} |-> rec[f]]

IsNoData(cell) == cell.mask \/ cell.data.nan

\* the cells a buffer selects (centre inside), and the valid ones among them
Selected(r, g) ==
    { c \in 0..(Len(r.cells) - 1) : ~g.empty /\ InShape(r, g, c) }
ValidSelected(r, g) == { c \in Selected(r, g) : ~IsNoData(r.cells[c + 1]) }
ValidSum(r, g) ==
    SumOver([c \in ValidSelected(r, g) |-> r.cells[c + 1].data.v], ValidSelected(r, g))

AllPositive(ds) == \A k \in DOMAIN ds : ds[k] > 0

\* C1: in the raster path every record's population_total is the sum of the
\* values of exactly the valid cells its buffer selects; no-data cells add
\* nothing (so no valid cell selected means a total of 0).
C1_TotalIsSumOfValidCells ==
    \A j \in DOMAIN RasterRecords :
        RasterRecords[j].population_total =
            Num(ValidSum(raster_file[1], RecBuffer(RasterRecords[j])))

\* C2: the record of a buffer entirely outside the raster extent differs (by
\* its coverage flag) from the record of a buffer inside the extent that
\* selects only no-data cells.
OutsideExtent(r, g) == ~g.empty /\ ~Overlaps(r, g)
InsideOverNoData(r, g) ==
    /\ ~g.empty
    /\ g.lo >= 0
    /\ g.hi <= r.res * Len(r.cells)
    /\ Selected(r, g) # {}
    /\ ValidSelected(r, g) = {}

C2_NoCoverageDistinguishable ==
    \A i, j \in DOMAIN RasterRecords :
        ( /\ OutsideExtent(raster_file[1], RecBuffer(RasterRecords[i]))
          /\ InsideOverNoData(raster_file[1], RecBuffer(RasterRecords[j])) )
        => Measured(RasterRecords[i]) # Measured(RasterRecords[j])

\* C3: the at-location lookup of a point outside the raster extent gives a
\* distinguished "no coverage" result, never the number 0.
C3_OutsideIsNotZero ==
    poi_pop_data # None =>
        \A i \in DOMAIN poi_pop_data[1] : \A n \in DOMAIN clipped_data :
            ~InExtent(clipped_data[n], PoiCol(clipped_data[n], PoiX(real_pois[i])))
            => poi_pop_data[1][i].at_location[n] # Num(0)

\* C4: for one feature and positive radii r1 < r2 over a raster without
\* negative values, population_total(r2) >= population_total(r1).
NoNegativeValues(r) ==
    \A c \in DOMAIN r.cells : IsNoData(r.cells[c]) \/ r.cells[c].data.v >= 0

C4_TotalMonotoneInRadius ==
    \A i, j \in DOMAIN RasterRecords :
        ( /\ NoNegativeValues(raster_file[1])
          /\ RasterRecords[i].poi_id = RasterRecords[j].poi_id
          /\ 0 < RasterRecords[i].buffer_distance
          /\ RasterRecords[i].buffer_distance < RasterRecords[j].buffer_distance )
        => Geq(RasterRecords[j].population_total, RasterRecords[i].population_total)

\* C5: the tag of an estimated record survives into every output: each row
\* of the saved table and the summary still say "estimated".
TagOf(x) ==
    IF "estimation_method" \in DOMAIN x THEN x.estimation_method
    ELSE IF "data_source" \in DOMAIN x THEN x.data_source
    ELSE "untagged"
SaysEstimated(x) == TagOf(x) \in {"api_fallback", "estimated"}

C5_EstimatedTagSurvives ==
    (\E j \in DOMAIN Records : IsEstimated(Records[j])) =>
        /\ csv_file # None => \A row \in csv_file[1].rows : SaysEstimated(row)
        /\ summary_file # None => SaysEstimated(summary_file[1])

\* C6: an estimated record exists only in a batch for which no raster was
\* obtained (and then neither buffers were built nor a raster opened); with a
\* raster no record is estimated, and no batch mixes the two kinds.
C6_FallbackOnlyWithoutRaster ==
    /\ \A j \in DOMAIN Records :
          IsEstimated(Records[j]) =>
              raster_file = None /\ buffer_zones = None /\ raster_opened = "unopened"
    /\ \A i, j \in DOMAIN Records : IsEstimated(Records[i]) = IsEstimated(Records[j])

\* a raster was obtained and the finished batch holds its records
C6_Witness ==
    /\ pc = "done"
    /\ raster_file # None
    /\ Len(Records) > 1
    /\ \A j \in DOMAIN Records : ~IsEstimated(Records[j])

\* C7: with valid radii, a pair whose sampling fails gets a record, the batch
\* goes on to every other pair, and the failed record carries a reason code
\* that tells it from a successfully measured zero.
FailedPair(r, g) == ~Overlaps(r, g)
MeasuredZero(r, g) == Overlaps(r, g) /\ ValidSelected(r, g) # {} /\ ValidSum(r, g) = 0

C7_FailureIsolatedAndMarked ==
    ( /\ raster_opened = "opened"
      /\ AllPositive(buffer_distances) )
    => /\ population_data # None
       /\ Len(Records) = Len(pois[1]) * Len(buffer_distances)
       /\ \A i, j \in DOMAIN Records :
            ( /\ FailedPair(raster_file[1], RecBuffer(Records[i]))
              /\ MeasuredZero(raster_file[1], RecBuffer(Records[j])) )
            => Measured(Records[i]) # Measured(Records[j])

\* C8: a zero or negative radius is rejected before any feature is
\* processed: no buffer is built, no record is produced, nothing is saved.
C8_NonPositiveRadiusRejected ==
    ~AllPositive(buffer_distances) =>
        /\ buffer_zones = None
        /\ population_data = None
        /\ csv_file = None

\* C9: in the raster path the record of a polygon feature equals, field by
\* field apart from the id, the record of a point feature at its centroid.
C9_PolygonAsCentroidPoint ==
    \A i, j \in DOMAIN RasterRecords :
        ( /\ RecFeature(RasterRecords[i]).gtype = "Polygon"
          /\ RecFeature(RasterRecords[j]) = Point(Centroid(RecFeature(RasterRecords[i])))
          /\ RasterRecords[i].buffer_distance = RasterRecords[j].buffer_distance )
        => [RasterRecords[i] EXCEPT !.poi_id = 0] = [RasterRecords[j] EXCEPT !.poi_id = 0]

\* C10: when the raster cannot be opened no per-feature work has been done:
\* no buffer was built, no record exists, nothing is written, and the run
\* reports failure.
C10_OpenFailureBeforeFeatureWork ==
    raster_opened = "failed" =>
        /\ buffer_zones = None
        /\ population_data = None
        /\ csv_file = None
        /\ summary_file = None
        /\ pc = "done" => ret = "False"

\* C11: calling the aggregation a second time on the same features, radii
\* and raster returns the records it returned the first time.
C11_SecondRunIdentical ==
    pc = "returned" => second_data = population_data

\* the raster path alone: the second extraction returns what the first did
RasterRerunIdentical ==
    (pc = "returned" /\ raster_file # None) => second_data = population_data

\* C12: when the real-data-only processor obtains no raster, the batch fails
\* as a whole: main returns False, no per-POI record is computed and neither
\* output file is written.
C12_NoRasterFailsWhole ==
    (apc \notin {"main_bounds", "main_download"} /\ raster_files = None) =>
        /\ apc = "main_done"
        /\ real_ret = "False"
        /\ poi_pop_data = None
        /\ DOMAIN clipped_data = {}
        /\ clipped_files = {}
        /\ real_csv = None
        /\ real_summary = None

\* the download was attempted and gave no raster
C12_Witness ==
    /\ apc = "main_done"
    /\ real_bounds # None
    /\ raster_files = None
    /\ \E n \in DatasetNames : data_dir[n] = "small"

\* C13: a projection failure (features without a usable reference system)
\* does not abort the batch: main ends by returning, not by the exception
\* that to_crs raised.
C13_ProjectionFailureIsolated ==
    (pc = "done" /\ pois # None /\ ~poi_crs) => ret # "ValueError"

\* C14: what save_results writes holds every (feature, requested radius)
\* pair exactly once: one row of the feature, with the radius among the
\* total and the density columns.
C14_EveryPairWrittenOnce ==
    csv_file # None =>
        \A i \in 1..Len(pois[1]) :
            \A k \in 1..Len(buffer_distances) :
                /\ Cardinality({ row \in csv_file[1].rows : row.poi_id = i - 1 }) = 1
                /\ buffer_distances[k] \in csv_file[1].total_cols
                /\ buffer_distances[k] \in csv_file[1].density_cols

\* the density the formula gives for a total and a radius, kept exact as
\* n / (pi * d): NaN for a NaN total
ExactDensity(tot, dist) ==
    IF tot.nan THEN NaNDensity
    ELSE [nan |-> FALSE, n |-> tot.v * 10000, d |-> dist * dist]

\* a density with numerator and denominator divided by 100 where both allow
Reduced(x) ==
    IF x.n % 100 = 0 /\ x.d % 100 = 0
    THEN [nan |-> x.nan, n |-> x.n \div 100, d |-> x.d \div 100]
    ELSE x

\* equality of two densities n / (pi * d) as numbers
SameDensity(x, y) ==
    IF x.nan \/ y.nan THEN x.nan /\ y.nan
    ELSE Reduced(x).n * Reduced(y).d = Reduced(y).n * Reduced(x).d

\* C15: in every record, and in every row of the table written, the
\* density per hectare equals the record's own total divided by
\* pi * radius^2 / 10000.
C15_DensityFromOwnTotal ==
    /\ \A j \in DOMAIN Records :
          SameDensity(Records[j].population_density,
                      ExactDensity(Records[j].population_total,
                                   Records[j].buffer_distance))
    /\ csv_file # None =>
          \A row \in csv_file[1].rows :
              \A d \in csv_file[1].total_cols \cap csv_file[1].density_cols :
                  SameDensity(row.population_density[d],
                              ExactDensity(row.population_total[d], d))

\* the same for the records and rows whose total is a number
DensityFromNumericTotal ==
    \A j \in DOMAIN Records :
        ~Records[j].population_total.nan =>
            SameDensity(Records[j].population_density,
                        ExactDensity(Records[j].population_total,
                                     Records[j].buffer_distance))

\* C16: an estimate made with the variation factor 1.0 is
\* pi * (radius / 1000)^2 * density exactly, with nothing cut off (pi taken
\* as 355/113, radius in tens of metres, factor in tenths).
C16_UnitFactorExact ==
    (pc \in {"save", "done"} /\ raster_file = None /\ population_data # None) =>
        \A j \in DOMAIN Records :
            (variation[j] = 10 /\ Records[j].buffer_distance > 0) =>
                Records[j].population_total.v * 11300 =
                    355 * (EstimatedDensity \div 1000)
                        * (Records[j].buffer_distance \div 10)
                        * (Records[j].buffer_distance \div 10) * 10

\* the radii requested, as a set
Requested == { buffer_distances[k] : k \in DOMAIN buffer_distances }

\* C17: for any non-empty list of positive radii, a batch whose totals are
\* all numbers is saved and summarised without error, and the table and the
\* summary report exactly the radii requested.
C17_AnyPositiveRadiiSaved ==
    ( /\ pc = "done"
      /\ population_data # None
      /\ AllPositive(buffer_distances)
      /\ \A j \in DOMAIN Records : ~Records[j].population_total.nan ) =>
        /\ ret = "True"
        /\ csv_file # None
        /\ csv_file[1].total_cols = Requested
        /\ csv_file[1].density_cols = Requested
        /\ summary_file # None
        /\ summary_file[1].buffer_distances = Requested

\* C18: the engine leaves the source features as they were loaded, and the
\* buffers of every radius are built from those same unmodified features.
C18_SourceFeaturesUntouched ==
    /\ pois # None => pois = poi_file
    /\ buffer_zones # None =>
          \A k \in DOMAIN buffer_zones[1] :
              \A i \in DOMAIN pois[1] :
                  buffer_zones[1][k].buffers[i].geometry =
                      Buffer(pois[1][i], buffer_distances[k])

\* a batch of several radii went through buffering and extraction
C18_Witness ==
    /\ pc = "done"
    /\ buffer_zones # None
    /\ Len(buffer_distances) >= 2
    /\ population_data # None
    /\ pois = poi_file

\* C19: the records reach the output table only once the whole batch has
\* been computed: whenever the CSV exists main has finished its per-feature
\* work, the batch holds a record for every feature and radius, and the
\* table is the pivot of exactly that batch; a run that ended without a
\* batch has written nothing.
C19_WrittenOnceAfterBatch ==
    /\ csv_file # None =>
          /\ pc = "done"
          /\ population_data # None
          /\ Len(Records) = Len(pois[1]) * Len(buffer_distances)
          /\ csv_file = Some(Pivot(Records))
    /\ (pc = "done" /\ population_data = None) =>
          (csv_file = None /\ summary_file = None)

\* a batch of several records was computed and then written
C19_Witness ==
    /\ pc = "done"
    /\ csv_file # None
    /\ Len(Records) >= 2
    /\ raster_opened = "opened"

\* the same for the real-data script: its CSV exists only after main's
\* analysis of every POI and holds exactly those rows
RealCsvAfterAnalysis ==
    /\ real_csv # None =>
          /\ apc = "main_done"
          /\ real_csv = poi_pop_data
          /\ Len(real_csv[1]) = Len(real_poi_file[1])
    /\ (apc = "main_done" /\ poi_pop_data = None) =>
          (real_csv = None /\ real_summary = None)

\* the records extract_population_from_raster returns for the radius d
\* alone, computed from scratch
AloneRecords(d) ==
    extract_population_from_raster(raster_file[1],
                                   create_buffer_zones(pois[1], << d >>), TRUE)

\* C20: with positive radii in any order, an extraction whose raster opened
\* returns, for each feature and radius, the record that the radius gives
\* when it is requested alone and computed from scratch.
C20_RadiusIndependent ==
    ( /\ pc \in {"call_extract_again", "returned"}
      /\ raster_opened = "opened"
      /\ AllPositive(buffer_distances) ) =>
        /\ population_data # None
        /\ Len(Records) = Len(buffer_distances) * Len(pois[1])
        /\ \A k \in DOMAIN buffer_distances :
              \A i \in DOMAIN pois[1] :
                  Records[(k - 1) * Len(pois[1]) + i] =
                      AloneRecords(buffer_distances[k])[1][i]

\* three positive radii given out of order, with a total that differs
\* between two of them
C20_Witness ==
    /\ pc = "returned"
    /\ raster_opened = "opened"
    /\ AllPositive(buffer_distances)
    /\ Len(buffer_distances) = 3
    /\ buffer_distances[1] > buffer_distances[2]
    /\ \E j, l \in DOMAIN Records :
          /\ GtZero(Records[j].population_total)
          /\ GtZero(Records[l].population_total)
          /\ Records[j].population_total # Records[l].population_total

\* the dataset n of the clipped data and the column the code gives POI i
RasterOf(n) == clipped_data[n]
ColOf(n, i) == PoiCol(RasterOf(n), PoiX(real_pois[i]))

\* C21: when the cell under a feature's point is no-data, the at-location
\* value recorded for the feature is not the number 0.
C21_NoDataCellNotZero ==
    poi_pop_data # None =>
        \A i \in DOMAIN poi_pop_data[1] : \A n \in DOMAIN clipped_data :
            ( /\ InExtent(RasterOf(n), ColOf(n, i))
              /\ PoiX(real_pois[i]) >= 0
              /\ IsNoData(RasterOf(n).cells[ColOf(n, i) + 1]) )
            => poi_pop_data[1][i].at_location[n] # Num(0)

\* the columns of the buffer window around col that lie inside the raster
WindowInExtent(r, col) ==
    LET bc == Max2(1, BufferDeg \div r.res)
    IN  { c \in 0..(Len(r.cells) - 1) : col - bc <= c /\ c <= col + bc }

\* C22: a feature whose point lies outside the raster extent but whose
\* buffer window holds valid cells of the raster gets the sum of those
\* cells as its buffer total.
C22_BufferClippedToExtent ==
    poi_pop_data # None =>
        \A i \in DOMAIN poi_pop_data[1] : \A n \in DOMAIN clipped_data :
            ( /\ ~InExtent(RasterOf(n), ColOf(n, i))
              /\ \E c \in WindowInExtent(RasterOf(n), ColOf(n, i)) :
                    ~IsNoData(RasterOf(n).cells[c + 1]) )
            => poi_pop_data[1][i].in_buffer[n] =
                   Num(SumOver([c \in WindowInExtent(RasterOf(n), ColOf(n, i)) |->
                                   IF IsNoData(RasterOf(n).cells[c + 1]) THEN 0
                                   ELSE RasterOf(n).cells[c + 1].data.v],
                               WindowInExtent(RasterOf(n), ColOf(n, i))))

\* C24: a point whose fractional column lies in (-1, 0), just left of the
\* raster origin, is handled as outside the raster: it gets the values the
\* code writes for a point outside the extent, never those of cell 0.
C24_FloorLeftOfOrigin ==
    poi_pop_data # None =>
        \A i \in DOMAIN poi_pop_data[1] : \A n \in DOMAIN clipped_data :
            ( /\ 0 - RasterOf(n).res < PoiX(real_pois[i])
              /\ PoiX(real_pois[i]) < 0 )
            => /\ poi_pop_data[1][i].at_location[n] = Num(0)
               /\ poi_pop_data[1][i].in_buffer[n] = Num(0)

\* C30: in a batch of estimates, for the same POI and positive distances
\* d1 < d2 the estimated total for d2 is at least the one for d1.
C30_EstimateMonotoneInDistance ==
    \A i, j \in DOMAIN Records :
        ( /\ IsEstimated(Records[i])
          /\ IsEstimated(Records[j])
          /\ Records[i].poi_id = Records[j].poi_id
          /\ 0 < Records[i].buffer_distance
          /\ Records[i].buffer_distance < Records[j].buffer_distance )
        => Geq(Records[j].population_total, Records[i].population_total)

\* C27: over any sequence of runs on a data directory that starts empty,
\* every file download_real_worldpop_data returns has been opened
\* successfully as a GeoTIFF.
C27_ReturnedFilesVerified ==
    raster_files # None =>
        \A n \in raster_files[1] : data_dir[n] = "large_valid"

\* C28: the intersection guard skips a raster, without attempting the clip,
\* exactly when the raster's bounds and the bounds of the area do not
\* intersect.
C28_GuardSkipsExactlyDisjoint ==
    guard_out \notin {"idle", "pending"} =>
        (guard_out = "skipped" <=> ~BoundsIntersect(guard_src, guard_bounds))

\* the URLs a log addresses with the given request, in the order of the log
RECURSIVE UrlsOf(_, _)
UrlsOf(log, request) ==
    IF log = << >> THEN << >>
    ELSE IF Head(log).request = request
         THEN << Head(log).url >> \o UrlsOf(Tail(log), request)
         ELSE UrlsOf(Tail(log), request)

\* each of the first m URLs of a list once, in list order
InListOrder(urls) == \A i \in DOMAIN urls : urls[i] = i

\* the file of URL k is one that rasterio opened
Acquired(k) == method_files[k] = "valid"

\* C25: no failure is retried: every search endpoint and every alternative
\* URL is attempted at most once and in list order, the search through the
\* alternative URLs stops at the first one that yields a valid raster, and
\* when none does the acquisition returns None.
C25_EachUrlOnceInOrder ==
    /\ acq_pc \in {"alt", "done"} =>
          /\ InListOrder(UrlsOf(search_log, "get"))
          /\ Len(search_log) = Len(UrlsOf(search_log, "get"))
          /\ Len(search_log) =
                IF search_ret = None THEN Len(SearchUrls) ELSE search_ret[1]
    /\ acq_pc = "done" =>
          /\ InListOrder(UrlsOf(alt_log, "head"))
          /\ \A i, j \in DOMAIN alt_log :
                (i # j /\ alt_log[i].url = alt_log[j].url)
                    => alt_log[i].request # alt_log[j].request
          /\ \A i \in DOMAIN alt_log :
                alt_log[i].request = "get" =>
                    i > 1 /\ alt_log[i - 1] = [url |-> alt_log[i].url, request |-> "head"]
          /\ Len(UrlsOf(alt_log, "head")) =
                IF alt_ret = None THEN Len(AlternativeUrls) ELSE alt_ret[1]
          /\ alt_ret # None => Acquired(alt_ret[1])
          /\ alt_ret = None => \A k \in DOMAIN AlternativeUrls : ~Acquired(k)
          /\ \A k \in DOMAIN AlternativeUrls :
                Acquired(k) => alt_ret = Some(k)

\* a run in which the first URLs failed, one of them leaving a partial file,
\* before a later URL gave a raster that opens
C25_Witness ==
    /\ acq_pc = "done"
    /\ search_ret = None
    /\ alt_ret # None
    /\ alt_ret[1] > 1
    /\ \E k \in DOMAIN AlternativeUrls : method_files[k] = "partial"

\* the row of the extracted frame a processed row comes from
SourceRow(f) == extracted[1][f.id]

\* a row's amenity is in one of the five lists
MatchesAmenityRule(f) ==
    IsIn(f.amenity, FoodBeverageAmenities \cup HealthcareAmenities
                      \cup EducationAmenities \cup FinancialAmenities
                      \cup TransportAmenities)

\* C23: after categorize_pois and clean_data every feature carries one
\* category out of food_beverage, healthcare, education, financial,
\* transport, retail and other, and a feature that matches no amenity rule
\* and has no shop tag is "other".
C23_OneKnownCategory ==
    (pois_02 # << >> /\ pois_02 # None) =>
        \A i \in DOMAIN pois_02[1] :
            LET f == pois_02[1][i]
            IN  /\ f.category \in CategoryNames
                /\ \A j \in DOMAIN pois_02[1] : pois_02[1][j].id = f.id => j = i
                /\ (~MatchesAmenityRule(SourceRow(f)) /\ SourceRow(f).shop = NoTag)
                      => f.category = "other"

\* a processed frame with a shop and with a feature of no rule and no shop
C23_Witness ==
    /\ pois_02 # << >>
    /\ pois_02 # None
    /\ \E i, j \in DOMAIN pois_02[1] :
          /\ SourceRow(pois_02[1][i]).shop # NoTag
          /\ pois_02[1][i].category = "retail"
          /\ ~MatchesAmenityRule(SourceRow(pois_02[1][j]))
          /\ SourceRow(pois_02[1][j]).shop = NoTag
          /\ pois_02[1][j].category = "other"

\* C26: the runner launches 01, 02, 03, 04 in this order, launches a script
\* only when every earlier one ended with success, and launches nothing
\* after the first failure.
C26_FixedOrderStopAtFailure ==
    /\ Len(started) <= Len(Scripts)
    /\ Len(exits) = Len(started)
    /\ \A k \in DOMAIN started :
          /\ started[k] = Scripts[k]
          /\ \A j \in 1..(k - 1) : exits[j] = 0
    /\ (\E k \in DOMAIN exits : exits[k] # 0) => runner_ret = "False"

\* the runner gave up at a script after the first
C26_Witness ==
    /\ runner_ret = "False"
    /\ Len(started) = 3
    /\ exits = << 0, 0, 1 >>

\* C29: whenever 02_process_pois ends with success it has written
\* koramangala_pois.geojson in that run, so in a pipeline that starts with
\* empty data directories 04 never fails with "POIs file not found".
C29_SuccessOf02WritesPois ==
    /\ (Len(exits) >= 2 /\ exits[2] = 0) => pois_geojson # None
    /\ msg_04 # "POIs file not found"

====
